---- MODULE Spec2Model ----
(***************************************************************************)
(* Active Brownian particle simulations: the trajectory generators of      *)
(* sim_updated.py (periodic boundary), sim.py and simulation.py (stop at   *)
(* the wall), script.py (batch loop), and the time-lag MSD estimator of    *)
(* sim_updated.py.                                                         *)
(*                                                                         *)
(* Numbers.  The programs compute in floating point; the model computes in *)
(* exact integers and so does not model rounding.  Units:                  *)
(*   time      milliseconds in the Tk programs (dt = 0.01 s is 10);        *)
(*   length    pixels;                                                     *)
(*   speed     sim_updated.py: pixels per second; sim.py: pixels per step; *)
(*   angle     1/1000 of a quarter turn (QuarterTurn is pi/2), angular     *)
(*             velocity in those units per second (per step in sim.py).    *)
(* np.cos and np.sin are evaluated exactly at whole quarter turns; the     *)
(* inputs below keep every heading at a whole quarter turn.                *)
(* A Tk handler runs to completion, so each handler is one action.         *)
(***************************************************************************)
EXTENDS Integers, Sequences, FiniteSets, TLC

VARIABLES
    variant,            \* which program runs: "sim_updated", "sim", "simulation", "script", "msd"
    running,            \* self.running
    position,           \* self.position, <<x, y>>
    theta,              \* self.theta (script.py: theta)
    angular_velocity,   \* self.angular_velocity (script.py: angluar_velocity)
    velocity,           \* self.velocity (sim.py, simulation.py)
    speed,              \* self.speed (sim.py, simulation.py)
    v,                  \* self.v (sim_updated.py)
    eta,                \* self.eta
    epsilon,            \* self.epsilon, milliseconds
    Dr_theoretical,     \* self.Dr_theoretical, the fraction <<num, den>>
    current_time,       \* self.current_time
    update_counter,     \* self.update_counter
    next_noise_update,  \* self.next_noise_update, milliseconds
    positions_history,  \* self.positions_history
    time_points,        \* self.time_points (sim.py: self.time_steps)
    trail,              \* len(self.trail)
    start_button,       \* state of the Start button
    stop_button,        \* state of the Stop button (sim.py: its text)
    plot_button,        \* state of the Plot MSD button
    after_animate,      \* number of animate callbacks scheduled with root.after
    after_noise,        \* number of update_angular_velocity callbacks scheduled
    noise_draws,        \* number of np.random.uniform draws made in this run
    input_error,        \* the "Input Error" dialog was shown by the last start
    idx,                \* script.py: number of entries of `time` already processed
    prevTime,           \* script.py: prevTime
    msd_curve,          \* the values calculate_msd has returned, in order
    attributes,         \* the numeric fields above that hold a number: the others are
                        \* None or missing, and their value in the model means nothing
    raised              \* the exception the last handler of sim_updated.py ended
                        \* with, "none" if it returned

vars == <<variant, running, position, theta, angular_velocity, velocity, speed,
          v, eta, epsilon, Dr_theoretical, current_time, update_counter,
          next_noise_update, positions_history, time_points, trail,
          start_button, stop_button, plot_button, after_animate, after_noise,
          noise_draws, input_error, idx, prevTime, msd_curve, attributes,
          raised>>

(***************************************************************************)
(* The object: every field the handlers read or write, as one record.      *)
(***************************************************************************)
Self ==
    [running |-> running, position |-> position, theta |-> theta,
     angular_velocity |-> angular_velocity, velocity |-> velocity,
     speed |-> speed, v |-> v, eta |-> eta, epsilon |-> epsilon,
     Dr_theoretical |-> Dr_theoretical, current_time |-> current_time,
     update_counter |-> update_counter,
     next_noise_update |-> next_noise_update,
     positions_history |-> positions_history, time_points |-> time_points,
     trail |-> trail, start_button |-> start_button,
     stop_button |-> stop_button, plot_button |-> plot_button,
     after_animate |-> after_animate, after_noise |-> after_noise,
     noise_draws |-> noise_draws, input_error |-> input_error,
     attributes |-> attributes]

Set(s) ==
    /\ running' = s.running
    /\ position' = s.position
    /\ theta' = s.theta
    /\ angular_velocity' = s.angular_velocity
    /\ velocity' = s.velocity
    /\ speed' = s.speed
    /\ v' = s.v
    /\ eta' = s.eta
    /\ epsilon' = s.epsilon
    /\ Dr_theoretical' = s.Dr_theoretical
    /\ current_time' = s.current_time
    /\ update_counter' = s.update_counter
    /\ next_noise_update' = s.next_noise_update
    /\ positions_history' = s.positions_history
    /\ time_points' = s.time_points
    /\ trail' = s.trail
    /\ start_button' = s.start_button
    /\ stop_button' = s.stop_button
    /\ plot_button' = s.plot_button
    /\ after_animate' = s.after_animate
    /\ after_noise' = s.after_noise
    /\ noise_draws' = s.noise_draws
    /\ input_error' = s.input_error
    /\ attributes' = s.attributes

Is(s) ==
    /\ running = s.running
    /\ position = s.position
    /\ theta = s.theta
    /\ angular_velocity = s.angular_velocity
    /\ velocity = s.velocity
    /\ speed = s.speed
    /\ v = s.v
    /\ eta = s.eta
    /\ epsilon = s.epsilon
    /\ Dr_theoretical = s.Dr_theoretical
    /\ current_time = s.current_time
    /\ update_counter = s.update_counter
    /\ next_noise_update = s.next_noise_update
    /\ positions_history = s.positions_history
    /\ time_points = s.time_points
    /\ trail = s.trail
    /\ start_button = s.start_button
    /\ stop_button = s.stop_button
    /\ plot_button = s.plot_button
    /\ after_animate = s.after_animate
    /\ after_noise = s.after_noise
    /\ noise_draws = s.noise_draws
    /\ input_error = s.input_error
    /\ attributes = s.attributes

NoAttr == "NoAttr"      \* the state of a button the program does not have

\* The text of an entry widget, as float() sees it: a number, or a text that
\* float() rejects with ValueError.
Num(n) == [ok |-> TRUE, val |-> n]
BAD == [ok |-> FALSE, val |-> 0]

(***************************************************************************)
(* Bounds of the model.                                                    *)
(***************************************************************************)
MaxSteps == 10          \* sim_updated.py: steps taken in one run
MaxPending == 2         \* animate callbacks scheduled at one time
MaxStepsSim == 6        \* sim.py, simulation.py: calls of update_position
MaxSamples == 4         \* calculate_msd: length of the sample sequence it is given
MaxTauIdx == 3          \* calculate_msd: the source's limit of 1000 lag indices,
                        \* scaled down so that sequences reach it

\* sim.py and simulation.py fix their geometry in the source (600 x 400,
\* radius 5, speed 0.4 a step, which puts the wall 738 steps away); the model
\* keeps the shape and scales the numbers down.
HalfWidthSim == 4
HalfHeightSim == 3
RadiusSim == 1
SpeedSim == 1

(***************************************************************************)
(* Arithmetic of the programs.                                             *)
(***************************************************************************)
abs(a) == IF a < 0 THEN -a ELSE a

QuarterTurn == 1000

quadrant(th) == (th \div QuarterTurn) % 4

cos(th) == CASE quadrant(th) = 0 -> 1
             [] quadrant(th) = 1 -> 0
             [] quadrant(th) = 2 -> -1
             [] OTHER -> 0

sin(th) == CASE quadrant(th) = 0 -> 0
             [] quadrant(th) = 1 -> 1
             [] quadrant(th) = 2 -> 0
             [] OTHER -> -1

\* np.random.uniform(lo, hi): the model samples the interval from lo upwards
\* every QuarterTurn, and at hi.
uniform(lo, hi) == {x \in lo..hi : (x - lo) % QuarterTurn = 0} \cup {hi}

\* The values a handler may draw: those of uniform(lo, hi) when the handler
\* makes the call, and one placeholder, which it never reads, when it does not.
draws(lo, hi, called) == IF called THEN uniform(lo, hi) ELSE {0}

(***************************************************************************)
(* sim_updated.py                                                          *)
(***************************************************************************)
width == 800
height == 600
dt == 10
record_every == 10

\* What the user may have typed into the three entries when Start is pressed.
\* The delay entry is in seconds; DelayEntries lists float(entry) * 1000.
SpeedEntries == {Num(0), Num(100000), BAD}
EtaEntries == {Num(0), Num(100), BAD}
DelayEntries == {Num(0), Num(25), BAD}

center == <<width \div 2, height \div 2>>

wrap(c, size) == IF c < 0 THEN c + size
                 ELSE IF c > size THEN c - size
                 ELSE c

\* update_position with the heading reduced to one turn, which the
\* program does not do.
update_position_one_turn(s) ==
    LET th == (s.theta + (s.angular_velocity * dt)) % (4 * QuarterTurn)
        vel == <<s.v * cos(th), s.v * sin(th)>>
        moved == <<s.position[1] + ((vel[1] * dt) \div 1000),
                   s.position[2] + ((vel[2] * dt) \div 1000)>>
    IN  [s EXCEPT !.theta = th,
                  !.position = <<wrap(moved[1], width), wrap(moved[2], height)>>,
                  !.trail = s.trail + 1]

\* update_position(): lines 174-195.
update_position(s) ==
    LET th == s.theta + (s.angular_velocity * dt)
        vel == <<s.v * cos(th), s.v * sin(th)>>
        moved == <<s.position[1] + ((vel[1] * dt) \div 1000),
                   s.position[2] + ((vel[2] * dt) \div 1000)>>
    IN  [s EXCEPT !.theta = th,
                  !.position = <<wrap(moved[1], width), wrap(moved[2], height)>>,
                  !.trail = s.trail + 1]

\* The refresh of the angular velocity at the end of a step.
noise_due(s) == s.current_time >= s.next_noise_update

noise_update(s, draw) ==
    IF noise_due(s)
    THEN [s EXCEPT !.angular_velocity = draw,
                   !.next_noise_update = s.next_noise_update + s.epsilon,
                   !.noise_draws = s.noise_draws + 1]
    ELSE s

\* A sample recorded in every step, which the program does not do.
record_sample_every_step(s) ==
    [s EXCEPT !.positions_history = Append(s.positions_history, s.position),
              !.time_points = Append(s.time_points, s.current_time)]

\* Lines 137-140.
record_sample(s) ==
    IF s.update_counter % record_every = 0
    THEN [s EXCEPT !.positions_history = Append(s.positions_history, s.position),
                   !.time_points = Append(s.time_points, s.current_time)]
    ELSE s

\* animate(): draw is the value np.random.uniform returns if it is called.
animate(s, draw) ==
    IF ~s.running THEN s
    ELSE LET s1 == update_position(s)
             s2 == [s1 EXCEPT !.current_time = s1.current_time + dt,
                              !.update_counter = s1.update_counter + 1]
             s3 == record_sample(s2)
             s4 == noise_update(s3, draw)
         IN  [s4 EXCEPT !.after_animate = s4.after_animate + 1]

\* start_simulation(): the three float() calls in order, each of which may
\* raise ValueError after the assignments before it were made.
start_simulation(s, v_entry, eta_entry, delay_entry, draw0, draw1) ==
    IF ~v_entry.ok THEN [s EXCEPT !.input_error = TRUE]
    ELSE IF ~eta_entry.ok
         THEN [s EXCEPT !.v = v_entry.val, !.input_error = TRUE,
                        !.attributes = s.attributes \cup {"v"}]
    ELSE IF ~delay_entry.ok
         THEN [s EXCEPT !.v = v_entry.val, !.eta = eta_entry.val,
                        !.input_error = TRUE,
                        !.attributes = s.attributes \cup {"v", "eta"}]
    ELSE LET s1 == [s EXCEPT !.v = v_entry.val,
                             !.eta = eta_entry.val,
                             !.epsilon = delay_entry.val,
                             !.Dr_theoretical = <<eta_entry.val * eta_entry.val, 6>>,
                             !.trail = 0,
                             !.position = center,
                             !.theta = 0,
                             !.angular_velocity = draw0,
                             !.noise_draws = 1,
                             !.positions_history = <<center>>,
                             !.time_points = <<0>>,
                             !.current_time = 0,
                             !.update_counter = 0,
                             !.next_noise_update = delay_entry.val,
                             !.running = TRUE,
                             !.start_button = "disabled",
                             !.stop_button = "normal",
                             !.plot_button = "disabled",
                             !.input_error = FALSE,
                             !.attributes = s.attributes \cup
                                 {"v", "eta", "epsilon", "Dr_theoretical",
                                  "position", "theta", "angular_velocity"}]
         IN  animate(s1, draw1)

\* A stop that sets the buttons and leaves the run running, which the program
\* does not do.
stop_simulation_buttons_only(s) ==
    [s EXCEPT !.start_button = "normal",
              !.stop_button = "disabled",
              !.plot_button = "normal"]

\* stop_simulation(): lines 122-126.
stop_simulation(s) ==
    [s EXCEPT !.running = FALSE,
              !.start_button = "normal",
              !.stop_button = "disabled",
              !.plot_button = "normal"]

\* The texts an entry may hold when the handler reads it; an entry the handler
\* does not get to read (an earlier float() raised) is not enumerated.
unread(entries, read) == IF read THEN entries ELSE {BAD}

\* The state after ParticleSimulation.__init__ of sim_updated.py.
InitUpdated ==
    /\ variant = "sim_updated"
    /\ running = FALSE
    /\ position = <<0, 0>>
    /\ theta = 0
    /\ angular_velocity = 0
    /\ velocity = <<0, 0>>
    /\ speed = 0
    /\ v = 0
    /\ eta = 0
    /\ epsilon = 0
    /\ Dr_theoretical = <<0, 6>>
    /\ current_time = 0
    /\ update_counter = 0
    /\ next_noise_update = 0
    /\ positions_history = <<>>
    /\ time_points = <<>>
    /\ trail = 0
    /\ start_button = "normal"
    /\ stop_button = "disabled"
    /\ plot_button = "disabled"
    /\ after_animate = 0
    /\ after_noise = 0
    /\ noise_draws = 0
    /\ input_error = FALSE
    /\ attributes = {}
    /\ idx = 0
    /\ prevTime = 0
    /\ msd_curve = <<>>
    /\ raised = "none"

\* The user presses Start Simulation.
StartSimulation ==
    /\ variant = "sim_updated"
    /\ start_button = "normal"
    /\ after_animate < MaxPending
    /\ \E v_entry \in SpeedEntries :
       \E eta_entry \in unread(EtaEntries, v_entry.ok) :
       \E delay_entry \in unread(DelayEntries, eta_entry.ok) :
       \E draw0 \in draws(-eta_entry.val, eta_entry.val, delay_entry.ok) :
       \E draw1 \in draws(-eta_entry.val, eta_entry.val,
                          delay_entry.ok /\ dt >= delay_entry.val) :
          Set(start_simulation(Self, v_entry, eta_entry, delay_entry,
                               draw0, draw1))
    /\ raised' = "none"
    /\ UNCHANGED <<variant, idx, prevTime, msd_curve>>

\* The user presses Stop Simulation.
StopSimulation ==
    /\ variant = "sim_updated"
    /\ stop_button = "normal"
    /\ Set(stop_simulation(Self))
    /\ raised' = "none"
    /\ UNCHANGED <<variant, idx, prevTime, msd_curve>>

\* A scheduled animate callback fires.
Animate ==
    /\ variant = "sim_updated"
    /\ after_animate > 0
    /\ running => update_counter < MaxSteps
    /\ \E draw \in draws(-eta, eta, running /\ current_time + dt >= next_noise_update) :
          Set(animate([Self EXCEPT !.after_animate = after_animate - 1], draw))
    /\ raised' = "none"
    /\ UNCHANGED <<variant, idx, prevTime, msd_curve>>


(***************************************************************************)
(* sim.py                                                                  *)
(***************************************************************************)
width_sim == 2 * HalfWidthSim
height_sim == 2 * HalfHeightSim
center_sim == <<HalfWidthSim, HalfHeightSim>>
neta_sim == QuarterTurn
trail_limit == 1000

\* A wall test that lets the particle touch the wall, which the program
\* does not do.
collides_strict(pos) ==
    \/ pos[1] - RadiusSim < 0
    \/ pos[1] + RadiusSim > width_sim
    \/ pos[2] - RadiusSim < 0
    \/ pos[2] + RadiusSim > height_sim

\* The wall test of update_position.
collides(pos) ==
    \/ pos[1] - RadiusSim <= 0
    \/ pos[1] + RadiusSim >= width_sim
    \/ pos[2] - RadiusSim <= 0
    \/ pos[2] + RadiusSim >= height_sim

draw_trail(n) == IF n + 1 > trail_limit THEN n ELSE n + 1

update_position_sim(s) ==
    LET th == s.theta + s.angular_velocity
        vel == <<s.speed * cos(th), s.speed * sin(th)>>
        pos == <<s.position[1] + vel[1], s.position[2] + vel[2]>>
        s1 == [s EXCEPT !.theta = th, !.velocity = vel, !.position = pos]
        s2 == IF collides(pos)
              THEN [s1 EXCEPT !.velocity = <<0, 0>>,
                              !.angular_velocity = 0,
                              !.speed = 0,
                              !.running = FALSE,
                              !.stop_button = "Stopped",
                              !.plot_button = "normal"]
              ELSE s1
    IN  [s2 EXCEPT !.current_time = s2.current_time + 1,
                   !.positions_history = Append(s2.positions_history, pos),
                   !.time_points = Append(s2.time_points, s2.current_time + 1),
                   !.trail = draw_trail(s2.trail)]

animate_sim(s) ==
    IF s.running
    THEN LET s1 == update_position_sim(s)
         IN  [s1 EXCEPT !.after_animate = s1.after_animate + 1]
    ELSE s

update_angular_velocity_sim(s, draw) ==
    IF s.running
    THEN [s EXCEPT !.angular_velocity = draw,
                   !.after_noise = s.after_noise + 1]
    ELSE s

toggle_simulation(s) ==
    LET s1 == [s EXCEPT !.running = ~s.running]
    IN  IF s1.running
        THEN animate_sim([s1 EXCEPT !.stop_button = "Stop Simulation",
                                    !.plot_button = "disabled"])
        ELSE [s1 EXCEPT !.stop_button = "Stopped", !.plot_button = "normal"]

\* The fields as __init__ sets them, before it calls animate().
constructed_sim(draw) ==
    [running |-> TRUE, position |-> center_sim, theta |-> 0,
     angular_velocity |-> draw,
     velocity |-> <<SpeedSim * cos(0), SpeedSim * sin(0)>>,
     speed |-> SpeedSim, v |-> 0, eta |-> neta_sim, epsilon |-> 500,
     Dr_theoretical |-> <<0, 6>>, current_time |-> 0, update_counter |-> 0,
     next_noise_update |-> 0,
     positions_history |-> <<center_sim>>, time_points |-> <<0>>,
     trail |-> 0, start_button |-> NoAttr,
     stop_button |-> "Stop Simulation", plot_button |-> "disabled",
     after_animate |-> 0, after_noise |-> 1,
     noise_draws |-> 0, input_error |-> FALSE,
     attributes |-> {"position", "theta", "angular_velocity", "velocity",
                     "speed", "eta", "epsilon"}]

\* The state after ParticleSimulation.__init__ of sim.py, which ends with a
\* call of animate().
InitSim ==
    /\ variant = "sim"
    /\ \E draw \in uniform(-neta_sim, neta_sim) :
          Is(animate_sim(constructed_sim(draw)))
    /\ idx = 0
    /\ prevTime = 0
    /\ msd_curve = <<>>
    /\ raised = "none"

\* A scheduled animate callback fires.
AnimateSim ==
    /\ variant = "sim"
    /\ after_animate > 0
    /\ running => current_time < MaxStepsSim
    /\ Set(animate_sim([Self EXCEPT !.after_animate = after_animate - 1]))
    /\ UNCHANGED <<variant, idx, prevTime, msd_curve, raised>>

\* The scheduled update_angular_velocity callback fires.
UpdateAngularVelocitySim ==
    /\ variant = "sim"
    /\ after_noise > 0
    /\ \E draw \in draws(-eta, eta, running) :
          Set(update_angular_velocity_sim(
                  [Self EXCEPT !.after_noise = after_noise - 1], draw))
    /\ UNCHANGED <<variant, idx, prevTime, msd_curve, raised>>

\* The user presses the Stop Simulation / Stopped button.
ToggleSimulation ==
    /\ variant = "sim"
    /\ ~running => (current_time < MaxStepsSim /\ after_animate < MaxPending)
    /\ Set(toggle_simulation(Self))
    /\ UNCHANGED <<variant, idx, prevTime, msd_curve, raised>>

(***************************************************************************)
(* simulation.py: sim.py without the stop button and the MSD data.         *)
(***************************************************************************)
update_position_simulation(s) ==
    LET th == s.theta + s.angular_velocity
        vel == <<s.speed * cos(th), s.speed * sin(th)>>
        pos == <<s.position[1] + vel[1], s.position[2] + vel[2]>>
        s1 == [s EXCEPT !.theta = th, !.velocity = vel, !.position = pos]
        s2 == IF collides(pos)
              THEN [s1 EXCEPT !.velocity = <<0, 0>>,
                              !.angular_velocity = 0,
                              !.speed = 0]
              ELSE s1
    IN  [s2 EXCEPT !.trail = draw_trail(s2.trail)]

animate_simulation(s) ==
    LET s1 == update_position_simulation(s)
    IN  [s1 EXCEPT !.after_animate = s1.after_animate + 1]

update_angular_velocity_simulation(s, draw) ==
    [s EXCEPT !.angular_velocity = draw, !.after_noise = s.after_noise + 1]

\* simulation.py has no running flag, no clock and no samples: the model
\* holds running at TRUE (animate never tests it) and the others at their
\* empty values.
constructed_simulation(draw) ==
    [constructed_sim(draw) EXCEPT !.positions_history = <<>>,
                                  !.time_points = <<>>,
                                  !.stop_button = NoAttr,
                                  !.plot_button = NoAttr]

InitSimulation ==
    /\ variant = "simulation"
    /\ \E draw \in uniform(-neta_sim, neta_sim) :
          Is(animate_simulation(constructed_simulation(draw)))
    /\ idx = 0
    /\ prevTime = 0
    /\ msd_curve = <<>>
    /\ raised = "none"

AnimateSimulation ==
    /\ variant = "simulation"
    /\ after_animate > 0
    /\ trail < MaxStepsSim
    /\ Set(animate_simulation([Self EXCEPT !.after_animate = after_animate - 1]))
    /\ UNCHANGED <<variant, idx, prevTime, msd_curve, raised>>

UpdateAngularVelocitySimulation ==
    /\ variant = "simulation"
    /\ after_noise > 0
    /\ \E draw \in uniform(-eta, eta) :
          Set(update_angular_velocity_simulation(
                  [Self EXCEPT !.after_noise = after_noise - 1], draw))
    /\ UNCHANGED <<variant, idx, prevTime, msd_curve, raised>>


(***************************************************************************)
(* script.py.  Its time unit in the model is 1/378100 s, in which every    *)
(* entry of `time` is a whole number.  The model keeps the heading and the *)
(* refresh of the angular velocity; x, y and msd, which the loop only      *)
(* appends to, are left out.                                               *)
(***************************************************************************)
second == 100 * 19 * 199
epsilon_script == second \div 2
neta_script == 3

\* np.linspace(start, stop, num)
linspace(start, stop, num) ==
    LET step == (stop - start) \div (num - 1)
    IN  [j \in 1..num |-> start + ((j - 1) * step)]

\* One round of the loop that builds `time`: np.linspace(i, i*10, int(number))[:-1]
time_range(i) ==
    LET number == IF i >= epsilon_script THEN (i * 10) \div epsilon_script ELSE 10
    IN  SubSeq(linspace(i, i * 10, number), 1, number - 1)

time ==
    time_range(second \div 100) \o time_range(second \div 10) \o
    time_range(second) \o time_range(10 * second) \o <<100 * second>>

\* The test that refreshes the angular velocity in the loop.
refresh_script(currTime) == currTime % epsilon_script = 0

InitScript ==
    /\ variant = "script"
    /\ \E draw \in uniform(-neta_script, neta_script) :
          Is([constructed_sim(draw) EXCEPT
                 !.running = FALSE, !.position = <<0, 0>>,
                 !.velocity = <<0, 0>>, !.speed = 0, !.eta = 0, !.epsilon = 0,
                 !.positions_history = <<>>, !.time_points = <<>>,
                 !.stop_button = NoAttr, !.plot_button = NoAttr,
                 !.after_noise = 0, !.noise_draws = 1,
                 !.attributes = {"theta", "angular_velocity"}])
    /\ idx = 0
    /\ prevTime = 0
    /\ msd_curve = <<>>
    /\ raised = "none"

\* One iteration of `for currTime in time`.
ScriptStep ==
    /\ variant = "script"
    /\ idx < Len(time)
    /\ LET currTime == time[idx + 1]
       IN  \E draw \in draws(-neta_script, neta_script, refresh_script(currTime)) :
              /\ angular_velocity' =
                     IF refresh_script(currTime) THEN draw ELSE angular_velocity
              /\ noise_draws' =
                     IF refresh_script(currTime) THEN noise_draws + 1 ELSE noise_draws
              /\ theta' = theta + (angular_velocity' * (currTime - prevTime))
              /\ prevTime' = currTime
              /\ idx' = idx + 1
    /\ UNCHANGED <<variant, running, position, velocity, speed, v, eta, epsilon,
                   Dr_theoretical, current_time, update_counter,
                   next_noise_update, positions_history, time_points, trail,
                   start_button, stop_button, plot_button, after_animate,
                   after_noise, input_error, msd_curve, attributes, raised>>

(***************************************************************************)
(* sim_updated.py: calculate_msd.  A mean is kept as the fraction          *)
(* <<sum, count>>.                                                         *)
(***************************************************************************)
min(a, b) == IF a < b THEN a ELSE b

RECURSIVE sum(_)
sum(q) == IF q = <<>> THEN 0 ELSE Head(q) + sum(Tail(q))

mean(q) == <<sum(q), Len(q)>>

\* The component of a displacement taken as it is, which the program does
\* not do.
periodic_raw(d, size) == d

\* Lines 232-235: the component of a displacement after the periodic test.
periodic(d, size) == IF 2 * abs(d) > size THEN size - abs(d) ELSE d

\* The loop `for i in range(n_points - tau_idx)`, from index i on.
RECURSIVE squared_displacements(_, _, _, _)
squared_displacements(positions, tau_idx, i, acc) ==
    IF i >= Len(positions) - tau_idx THEN acc
    ELSE LET a == positions[i + tau_idx + 1]
             b == positions[i + 1]
             disp == <<periodic(a[1] - b[1], width), periodic(a[2] - b[2], height)>>
         IN  squared_displacements(positions, tau_idx, i + 1,
                 Append(acc, (disp[1] * disp[1]) + (disp[2] * disp[2])))

\* A number of lag indices without the limit, which the program does not
\* use.
max_tau_idx_unlimited(n_points) == n_points

\* Line 218.
max_tau_idx(n_points) == min(n_points, MaxTauIdx)

\* The loop `for tau_idx in range(1, max_tau_idx)`, from index tau_idx on.
RECURSIVE msd_loop(_, _, _, _)
msd_loop(positions, times, tau_idx, acc) ==
    IF tau_idx >= max_tau_idx(Len(positions)) THEN acc
    ELSE LET tau == times[tau_idx + 1] - times[1]
             sq == squared_displacements(positions, tau_idx, 0, <<>>)
         IN  msd_loop(positions, times, tau_idx + 1,
                 IF sq # <<>>
                 THEN [tau_values |-> Append(acc.tau_values, tau),
                       msd_values |-> Append(acc.msd_values, mean(sq))]
                 ELSE acc)

calculate_msd(s) ==
    msd_loop(s.positions_history, s.time_points, 1,
             [tau_values |-> <<>>, msd_values |-> <<>>])

\* Sample sequences a run of sim_updated.py can have recorded when Plot MSD
\* is pressed: the start sample and more, the times 10 steps apart, the
\* positions on and (after a step longer than the domain) off the canvas.
SamplePoints == {<<100, 300>>, <<700, 100>>, <<400, 500>>, <<2400, 300>>}

sample_times(n) == [i \in 1..n |-> (i - 1) * record_every * dt]

InitMSD ==
    /\ variant = "msd"
    /\ \E n \in 1..MaxSamples : \E ps \in [1..n -> SamplePoints] :
          /\ positions_history = ps
          /\ time_points = sample_times(n)
    /\ running = FALSE
    /\ position = <<0, 0>>
    /\ theta = 0
    /\ angular_velocity = 0
    /\ velocity = <<0, 0>>
    /\ speed = 0
    /\ v = 0
    /\ eta = 0
    /\ epsilon = 0
    /\ Dr_theoretical = <<0, 6>>
    /\ current_time = 0
    /\ update_counter = 0
    /\ next_noise_update = 0
    /\ trail = 0
    /\ start_button = "normal"
    /\ stop_button = "disabled"
    /\ plot_button = "normal"
    /\ after_animate = 0
    /\ after_noise = 0
    /\ noise_draws = 0
    /\ input_error = FALSE
    /\ attributes = {}
    /\ idx = 0
    /\ prevTime = 0
    /\ msd_curve = <<>>
    /\ raised = "none"

\* calculate_msd is called on the recorded samples.
CalculateMSD ==
    /\ variant = "msd"
    /\ msd_curve = <<>>
    /\ msd_curve' = <<calculate_msd(Self)>>
    /\ UNCHANGED <<variant, running, position, theta, angular_velocity,
                   velocity, speed, v, eta, epsilon, Dr_theoretical,
                   current_time, update_counter, next_noise_update,
                   positions_history, time_points, trail, start_button,
                   stop_button, plot_button, after_animate, after_noise,
                   noise_draws, input_error, idx, prevTime, attributes,
                   raised>>

\* calculate_theoretical_msd(): `v**2 / Dr` and `1/Dr` divide Python floats,
\* which raises ZeroDivisionError for Dr = 0.0; the value returned for
\* Dr # 0 (an exponential) is not modelled.
calculate_theoretical_msd(s) ==
    IF s.Dr_theoretical[1] = 0 THEN "ZeroDivisionError" ELSE "none"

\* plot_msd(): the exception the handler ends with.  hasattr(self,
\* 'Dr_theoretical') is the test of lines 270 and 277; tau_values[0] of an
\* empty array (lines 279, 286) raises IndexError.
plot_msd(s) ==
    LET tau_values == calculate_msd(s).tau_values
        has_Dr == "Dr_theoretical" \in s.attributes
    IN  IF has_Dr /\ Len(tau_values) > 0
             /\ calculate_theoretical_msd(s) # "none"
        THEN calculate_theoretical_msd(s)
        ELSE IF has_Dr /\ s.Dr_theoretical[1] = 0 THEN "ZeroDivisionError"
        ELSE IF Len(tau_values) = 0 THEN "IndexError"
        ELSE "none"

\* The user presses Plot MSD.
PlotMsd ==
    /\ variant = "sim_updated"
    /\ plot_button = "normal"
    /\ raised' = plot_msd(Self)
    /\ UNCHANGED <<variant, running, position, theta, angular_velocity,
                   velocity, speed, v, eta, epsilon, Dr_theoretical,
                   current_time, update_counter, next_noise_update,
                   positions_history, time_points, trail, start_button,
                   stop_button, plot_button, after_animate, after_noise,
                   noise_draws, input_error, idx, prevTime, msd_curve,
                   attributes>>

Init == InitUpdated \/ InitSim \/ InitSimulation \/ InitScript

Next ==
    \/ StartSimulation
    \/ StopSimulation
    \/ Animate
    \/ PlotMsd
    \/ AnimateSim
    \/ UpdateAngularVelocitySim
    \/ ToggleSimulation
    \/ AnimateSimulation
    \/ UpdateAngularVelocitySimulation
    \/ ScriptStep

Spec == Init /\ [][Next]_vars

NextMSD == CalculateMSD

SpecMSD == InitMSD /\ [][NextMSD]_vars

(***************************************************************************)
(* Properties                                                              *)
(***************************************************************************)
Upd == variant = "sim_updated"

\* A successful start_simulation, which takes the first step of the run.
StartsRun == Upd /\ ~running /\ running'

\* An animate callback that takes a step.
TakesStep == Upd /\ running /\ update_counter' = update_counter + 1

\* The elapsed time goes from t to t2 over k*e for some integer k >= 1.
Crosses(t, t2, e) == \E k \in 1..t2 : t < k * e /\ k * e <= t2

\* The refresh rule of one step that starts at time t with the threshold next
\* and `drawn` draws made, for the interval e.
RefreshRule(t, next, drawn, e) ==
    LET due == current_time' >= next
    IN  /\ noise_draws' = drawn + (IF due THEN 1 ELSE 0)
        /\ next_noise_update' = next + (IF due THEN e ELSE 0)
        /\ due => Crosses(t, current_time', e)

\* C1: in sim_updated.py a run starts with next_noise_update = epsilon; a step
\* redraws the angular velocity iff the elapsed time has reached
\* next_noise_update, which then advances by epsilon; so a redraw happens only
\* in a step in which the elapsed time crosses k*epsilon for an integer k >= 1,
\* at most once a step, and nothing else changes the angular velocity.
C1_NoiseCadence ==
    [][/\ StartsRun => RefreshRule(0, epsilon', 1, epsilon')
       /\ TakesStep =>
              RefreshRule(current_time, next_noise_update, noise_draws, epsilon)
       /\ (Upd /\ ~StartsRun /\ ~TakesStep) =>
              /\ angular_velocity' = angular_velocity
              /\ noise_draws' = noise_draws]_vars

\* The elapsed time goes from t to t2 past a multiple of e without landing on it.
Passes(t, t2, e) == e > 0 /\ \E k \in 1..(t2 \div e) : t < k * e /\ k * e < t2

\* C2: in every generator that steps through time (sim_updated.py, script.py),
\* a step in which the elapsed time passes a multiple of epsilon without
\* landing on it redraws the angular velocity.
C2_ThresholdRefresh ==
    [][/\ StartsRun =>
              (Passes(0, current_time', epsilon') => noise_draws' = 2)
       /\ TakesStep =>
              (Passes(current_time, current_time', epsilon)
                   => noise_draws' = noise_draws + 1)
       /\ (variant = "script" /\ idx' = idx + 1) =>
              (Passes(prevTime, prevTime', epsilon_script)
                   => noise_draws' = noise_draws + 1)]_vars

\* A step of sim.py, of simulation.py.
TakesStepSim == variant = "sim" /\ current_time' = current_time + 1
TakesStepSimulation == variant = "simulation" /\ trail' = trail + 1

\* C3: every step adds (angular velocity at the start of the step) * dt to the
\* heading, unwrapped, and nothing else changes the heading (a start sets it
\* to 0 and takes the first step with the angular velocity it drew).
C3_HeadingContinuity ==
    [][/\ TakesStep => theta' = theta + (angular_velocity * dt)
       /\ StartsRun =>
              /\ \E w \in uniform(-eta', eta') : theta' = 0 + (w * dt)
              /\ noise_draws' = 1 => theta' = 0 + (angular_velocity' * dt)
       /\ (Upd /\ ~StartsRun /\ ~TakesStep) => theta' = theta
       /\ TakesStepSim => theta' = theta + angular_velocity
       /\ (variant = "sim" /\ ~TakesStepSim) => theta' = theta
       /\ TakesStepSimulation => theta' = theta + angular_velocity
       /\ (variant = "simulation" /\ ~TakesStepSimulation) => theta' = theta]_vars

\* A run of sim_updated.py whose heading has gone round more than once.
C3_Witness ==
    /\ Upd
    /\ running
    /\ update_counter > 4
    /\ angular_velocity # 0
    /\ abs(theta) > 4 * QuarterTurn

\* C4: under the periodic boundary, after every step, both coordinates are
\* inside [0, size].
C4_InsideDomain ==
    (Upd /\ update_counter > 0) =>
        /\ 0 <= position[1] /\ position[1] <= width
        /\ 0 <= position[2] /\ position[2] <= height

Terminated == ~running /\ speed = 0 /\ collides(position)

\* C5: in sim.py and simulation.py the step that takes the particle to the
\* wall zeroes the velocity and the angular velocity and (sim.py) stops the
\* run; from then on the run stays stopped, the angular velocity stays 0 and
\* update_position is not executed again.
C5_WallTerminates ==
    [][/\ (TakesStepSim /\ collides(position')) =>
              velocity' = <<0, 0>> /\ angular_velocity' = 0 /\ ~running'
       /\ (TakesStepSimulation /\ collides(position')) =>
              velocity' = <<0, 0>> /\ angular_velocity' = 0
       /\ (variant = "sim" /\ collides(position)) =>
              ~running' /\ angular_velocity' = 0 /\ ~TakesStepSim
       /\ (variant = "simulation" /\ collides(position)) =>
              angular_velocity' = 0 /\ ~TakesStepSimulation]_vars

\* The samples of sim.py lie on the line from the centre towards the right
\* wall and never go back: every step so far had heading 0, so angular
\* velocity 0, until the particle stopped.
Straight ==
    \A i \in 1..Len(positions_history) :
        /\ positions_history[i][2] = HalfHeightSim
        /\ i > 1 => positions_history[i][1] >= positions_history[i - 1][1]

\* ceil(distance / (speed * dt)), the step being the time unit of sim.py.
StepsToWall ==
    LET distance == (width_sim - RadiusSim) - HalfWidthSim
    IN  (distance + SpeedSim - 1) \div SpeedSim

\* C6: in sim.py a particle that goes straight at the wall is terminated after
\* at most ceil(distance / speed) steps, and the position of a terminated
\* run never changes.
C6_StraightRunTerminates ==
    /\ [](variant = "sim" /\ Straight /\ current_time >= StepsToWall
              => Terminated)
    /\ [][variant = "sim" /\ Terminated => position' = position]_vars

\* A straight run that stopped at the wall, after which update_position ran
\* again.
C6_Witness ==
    /\ variant = "sim"
    /\ Straight
    /\ Terminated
    /\ current_time > StepsToWall
    /\ position = <<HalfWidthSim + (StepsToWall * SpeedSim), HalfHeightSim>>

\* The squared periodic-corrected displacement between samples i and j.
SquaredDisplacement(positions, i, j) ==
    LET dx == positions[j][1] - positions[i][1]
        dy == positions[j][2] - positions[i][2]
        cx == IF 2 * abs(dx) > width THEN width - abs(dx) ELSE dx
        cy == IF 2 * abs(dy) > height THEN height - abs(dy) ELSE dy
    IN  (cx * cx) + (cy * cy)

RECURSIVE Total(_, _)
Total(f, S) ==
    IF S = {} THEN 0
    ELSE LET x == CHOOSE y \in S : TRUE IN f[x] + Total(f, S \ {x})

\* The mean over every start index of the squared displacement at lag k.
MeanAtLag(positions, k) ==
    LET starts == 1..(Len(positions) - k)
    IN  <<Total([i \in starts |-> SquaredDisplacement(positions, i, i + k)],
                starts),
          Cardinality(starts)>>

\* C7: calculate_msd returns, at every lag index k of the curve, the lag
\* time[k] - time[0] and the mean over all start indices of the squared
\* periodic-corrected displacement, and leaves the samples as they were.
C7_MsdIsTimeAverage ==
    [][msd_curve' # msd_curve =>
          LET curve == msd_curve'[Len(msd_curve')]
          IN  /\ Len(curve.msd_values) = Len(curve.tau_values)
              /\ \A k \in 1..Len(curve.tau_values) :
                    /\ curve.tau_values[k] = time_points[k + 1] - time_points[1]
                    /\ curve.msd_values[k] = MeanAtLag(positions_history, k)
              /\ positions_history' = positions_history
              /\ time_points' = time_points]_vars

\* A curve of two lags computed from samples that need the periodic
\* correction on both axes.
C7_Witness ==
    /\ msd_curve # <<>>
    /\ Len(msd_curve[1].tau_values) >= 2
    /\ \E i, j \in 1..Len(positions_history) :
          /\ 2 * abs(positions_history[j][1] - positions_history[i][1]) > width
    /\ \E i, j \in 1..Len(positions_history) :
          /\ 2 * abs(positions_history[j][2] - positions_history[i][2]) > height

\* C8: the curve has positive, strictly increasing lag times, non-negative
\* values, at most min(len(samples), limit) - 1 entries, and is empty for
\* fewer than 2 samples.
C8_CurveShape ==
    msd_curve # <<>> =>
        LET curve == msd_curve[1]
            n == Len(curve.tau_values)
        IN  /\ \A k \in 1..n : curve.tau_values[k] > 0
            /\ \A k \in 2..n : curve.tau_values[k] > curve.tau_values[k - 1]
            /\ Len(curve.msd_values) = n
            /\ \A k \in 1..n :
                  curve.msd_values[k][1] >= 0 /\ curve.msd_values[k][2] > 0
            /\ n <= min(Len(positions_history), MaxTauIdx) - 1
            /\ Len(positions_history) < 2 => n = 0

\* A curve cut by the limit of lag indices.
C8_Witness ==
    /\ msd_curve # <<>>
    /\ Len(positions_history) > MaxTauIdx
    /\ Len(msd_curve[1].tau_values) = MaxTauIdx - 1

\* C9: for every pair of samples of a periodic run, each component of the
\* displacement after the periodic correction is at most half the domain.
C9_CorrectionBounded ==
    Upd =>
        \A i, j \in 1..Len(positions_history) :
            LET a == positions_history[i]
                b == positions_history[j]
            IN  /\ 2 * abs(periodic(b[1] - a[1], width)) <= width
                /\ 2 * abs(periodic(b[2] - a[2], height)) <= height

\* C10: no run of sim_updated.py is running with a non-positive speed or a
\* non-positive interval epsilon.
C10_RejectsNonPositive ==
    (Upd /\ running) => (v > 0 /\ epsilon > 0)

\* C11: with Dr = 0 (eta = 0) the evaluation of the theoretical MSD in
\* plot_msd ends with a ConfigurationError, and no handler ever executes a
\* division by zero.
C11_ZeroDrRejected ==
    [][/\ (PlotMsd /\ Dr_theoretical[1] = 0
               /\ calculate_msd(Self).tau_values # <<>>)
              => raised' = "ConfigurationError"
       /\ raised' # "ZeroDivisionError"]_vars

\* C12: in sim_updated.py and sim.py the Plot MSD button is enabled only while
\* the run is not running, and the recorded samples change only in a step of
\* a running run or in the handler of a start or resume press.
C12_PlotOnFrozenSamples ==
    /\ []((variant \in {"sim_updated", "sim"} /\ plot_button = "normal")
              => ~running)
    /\ [][(/\ variant \in {"sim_updated", "sim"}
            /\ \/ positions_history' # positions_history
               \/ time_points' # time_points)
              => (running \/ StartSimulation \/ ToggleSimulation)]_vars

\* A stopped run of sim_updated.py with two samples whose pending animate
\* callback has fired after the stop, and Plot MSD enabled.
C12_Witness ==
    /\ Upd
    /\ ~running
    /\ plot_button = "normal"
    /\ after_animate = 0
    /\ Len(positions_history) >= 2

\* C13: in a run of sim_updated.py the samples start with (time 0, centre),
\* positions_history and time_points have the same length, which is
\* 1 + floor(steps / 10), the times are strictly increasing, and a step only
\* appends to the two lists or leaves them as they are.
C13_SamplesGrow ==
    /\ []((Upd /\ "position" \in attributes) =>
              /\ Len(positions_history) = Len(time_points)
              /\ Len(positions_history) = 1 + (update_counter \div record_every)
              /\ positions_history[1] = center
              /\ time_points[1] = 0
              /\ \A i \in 2..Len(time_points) :
                     time_points[i] > time_points[i - 1])
    /\ [][(Upd /\ ~StartsRun) =>
              /\ \/ positions_history' = positions_history
                 \/ positions_history' = Append(positions_history, position')
              /\ \/ time_points' = time_points
                 \/ time_points' = Append(time_points, current_time')]_vars

\* A run of sim_updated.py that has recorded its second sample, at the 10th
\* step.
C13_Witness ==
    /\ Upd
    /\ update_counter = record_every
    /\ Len(positions_history) = 2
    /\ time_points = <<0, record_every * dt>>
    /\ positions_history[2] # center

\* C14: in sim_updated.py and sim.py at most one animate callback is pending
\* at any time, so that one tick advances the particle by one step.
C14_OneAnimateChain ==
    (variant \in {"sim_updated", "sim"}) => after_animate <= 1

\* C15: in sim.py, whenever the simulation is running (so not stopped at a
\* wall), an update_angular_velocity callback is scheduled, so that the
\* angular velocity is redrawn again.
C15_NoiseTimerKept ==
    (variant = "sim" /\ running) => after_noise > 0

\* C16: a start_simulation that ends in the Input Error dialog, whichever
\* entry is the one that does not parse, leaves v, eta, epsilon, Dr, the
\* recorded samples and the running flag as they were.
C16_FailedStartChangesNothing ==
    [][(StartSimulation /\ input_error') =>
          /\ v' = v /\ eta' = eta /\ epsilon' = epsilon
          /\ Dr_theoretical' = Dr_theoretical
          /\ attributes' = attributes
          /\ positions_history' = positions_history
          /\ time_points' = time_points
          /\ running' = running]_vars

====
